---- MODULE Spec2Model ----
(***************************************************************************)
(* Liftover of GWAS summary statistics (utils/liftover_sumstats.py), and  *)
(* the phenotype recoding of bin/export_plink_preprocess.py.               *)
(*                                                                         *)
(* main() runs four steps in order: sumstats_to_vcf (encode the table as   *)
(* VCF records and normalise them with bcftools norm), run_liftover        *)
(* (bcftools +liftover, an external engine), parse_lifted_vcf (read the    *)
(* success and reject streams) and update_sumstats (rewrite coordinates    *)
(* and alleles, flip the statistics, split the table into two outputs).    *)
(*                                                                         *)
(* Three specifications share the actions.  Spec is one run of main() in   *)
(* which no step raises, over tables, column lists and spellings.          *)
(* SpecEncoder is sumstats_to_vcf alone over tables of many chromosomes    *)
(* and positions.  SpecRun is a sequence of runs of main() in which every  *)
(* step may raise, with the files each run leaves behind.  SpecPheno is     *)
(* the recoding of one phenotype column by export_plink_preprocess.py.     *)
(*                                                                         *)
(* Values.  Strings are TLA+ strings and are concatenated with \o as the   *)
(* code concatenates them.  A missing table cell (pandas NaN) is the       *)
(* string NA.  Statistics are integers; -x and 1 - x are computed as the   *)
(* code computes them.  The fields src, nswap, lswap, sflip, idx,          *)
(* lifted_mask and flip_mask are history fields: they record which row     *)
(* a record came from and what the external tools did to it, and no        *)
(* action reads them to decide anything.                                   *)
(***************************************************************************)
EXTENDS Integers, Sequences, FiniteSets, TLC

VARIABLES
    pc,             \* position in main(): start, encoded, lifted, parsed, done, failed
                    \* (export_plink_preprocess.py: preprocess, exported)
    args,           \* the command line: add_chr_prefix, rsid_col, effect_cols,
                    \* eaf_cols, temp_dir (--temp-dir was given), keep_temp
    table,          \* the rows of the input file, in file order
    missing_cols,   \* a required column is absent from the header of the input file
    tmpdir,         \* the temporary directory and the files in it
    outputs,        \* the state of output_file, unmatched_file and their .tmp paths
    proc,           \* the run: number, exception, return values, calls made
    input_vcf,      \* the records of input.vcf.gz written by sumstats_to_vcf
    success,        \* the records of lifted.vcf.gz (the engine's success stream)
    reject,         \* the IDs of lifted.rejected.vcf.gz (the engine's reject stream)
    lifted_info,    \* parse_lifted_vcf: dict from variant ID to lifted information
    rejected_ids,   \* parse_lifted_vcf: list of rejected variant IDs
    df,             \* update_sumstats: the data frame after all updates
    lifted_out,     \* the rows written to output_file
    unmatched_out,  \* the rows written to unmatched_file
    summary,        \* the counters update_sumstats prints
    pheno,          \* export_plink_preprocess.py: a phenotype column as read
    d_set           \* export_plink_preprocess.py: that column of d_set

vars == <<pc, args, table, missing_cols, tmpdir, outputs, proc, input_vcf,
          success, reject, lifted_info, rejected_ids, df, lifted_out,
          unmatched_out, summary, pheno, d_set>>

\* The variables of export_plink_preprocess.py.
export_vars == <<pheno, d_set>>

-----------------------------------------------------------------------------
(* Bounds of the model *)

MaxRows == 2        \* rows of the input table
MaxListLen == 2     \* length of --effect-col / --eaf-col lists
MaxRuns == 2        \* runs of main() on one output path and --temp-dir
MaxPhenoRows == 3   \* rows of a phenotype column

(* Sample values *)

NA == "NA"
StatCols == {"BETA", "EAF"}             \* statistics columns of the table
CallerNames == {"BETA", "EAF", "Z"}     \* names a caller may pass; Z is no column
Positions == {100, 200}
BadPos == -1                            \* a position cell that is no number
StatSamples == {[BETA |-> 2, EAF |-> 0], [BETA |-> -1, EAF |-> 1]}

-----------------------------------------------------------------------------
(* Strings *)

Upper(a) ==
    CASE a = "a" -> "A"
      [] a = "c" -> "C"
      [] a = "g" -> "G"
      [] a = "t" -> "T"
      [] OTHER -> a

Complement(a) ==
    CASE a = "A" -> "T"
      [] a = "T" -> "A"
      [] a = "C" -> "G"
      [] a = "G" -> "C"
      [] OTHER -> a

simple_chroms == {ToString(i) : i \in 1..22} \cup {"X", "Y", "MT", "M"}

valid_chroms_with_chr == {"chr" \o c : c \in simple_chroms}

all_valid == simple_chroms \cup valid_chroms_with_chr

\* Lines 60-67: strip, then a value pandas parses as a number is written
\* back as the string of its integer part ("1.0" becomes "1").
CleanChr(c) ==
    IF \E i \in 0..30 : c = ToString(i) \o ".0"
    THEN ToString(CHOOSE i \in 0..30 : c = ToString(i) \o ".0")
    ELSE c

\* A prefix setting that is ignored.
PrefixChrNever(c, add_chr_prefix) == c

\* Lines 72-76: the prefix is added to the values of simple_chroms only.
PrefixChr(c, add_chr_prefix) ==
    IF add_chr_prefix /\ c \in simple_chroms THEN "chr" \o c ELSE c

\* A sort key that does not look under the chr prefix.
chr_sort_key_unstripped(chr_str) ==
    IF \E i \in 1..22 : chr_str = ToString(i)
    THEN CHOOSE i \in 1..22 : chr_str = ToString(i)
    ELSE IF chr_str = "X" THEN 23
    ELSE IF chr_str = "Y" THEN 24
    ELSE IF chr_str \in {"MT", "M"} THEN 25
    ELSE 99

\* Lines 97-108, on the values that pass the filter of line 87.
chr_sort_key(chr_str) ==
    LET chr_clean == IF chr_str \in valid_chroms_with_chr
                     THEN CHOOSE c \in simple_chroms : chr_str = "chr" \o c
                     ELSE chr_str
    IN  IF \E i \in 1..22 : chr_clean = ToString(i)
        THEN CHOOSE i \in 1..22 : chr_clean = ToString(i)
        ELSE IF chr_clean = "X" THEN 23
        ELSE IF chr_clean = "Y" THEN 24
        ELSE IF chr_clean \in {"MT", "M"} THEN 25
        ELSE 99

\* chr:pos:ref:alt, as lines 159-164 and 455-461 build it.
CompositeId(chr, pos, ref, ea) ==
    chr \o ":" \o ToString(pos) \o ":" \o ref \o ":" \o ea

-----------------------------------------------------------------------------
(* Sequences *)

Range(s) == {s[i] : i \in DOMAIN s}

RECURSIVE SeqsUpTo(_, _)
SeqsUpTo(S, n) ==
    IF n = 0 THEN {<< >>}
    ELSE LET shorter == SeqsUpTo(S, n - 1)
         IN  shorter \cup {Append(s, x) : s \in {t \in shorter : Len(t) = n - 1}, x \in S}

\* Lines 110-111: the sort key of a record, (_chr_sort, pos).
SortKey(r) == <<chr_sort_key(r.chrom), r.pos>>

KeyLeq(a, b) ==
    \/ SortKey(a)[1] < SortKey(b)[1]
    \/ (SortKey(a)[1] = SortKey(b)[1] /\ SortKey(a)[2] <= SortKey(b)[2])

RECURSIVE InsertSorted(_, _)
InsertSorted(s, r) ==
    IF s = << >> THEN <<r>>
    ELSE LET last == s[Len(s)]
         IN  IF KeyLeq(last, r)
             THEN Append(s, r)
             ELSE Append(InsertSorted(SubSeq(s, 1, Len(s) - 1), r), last)

\* Line 111: sort_values on two columns, a stable sort.
RECURSIVE sort_values(_)
sort_values(s) ==
    IF s = << >> THEN << >>
    ELSE InsertSorted(sort_values(SubSeq(s, 1, Len(s) - 1)), s[Len(s)])

IsSorted(s) == \A i \in 1..(Len(s) - 1) : KeyLeq(s[i], s[i + 1])

-----------------------------------------------------------------------------
(* The run of main() and the files it works on *)

\* A run that has called nothing yet.  error is the exception main() ends
\* with; norm_rc is what bcftools norm returned; returned is the value
\* sumstats_to_vcf returned; ran and calls are the functions entered and
\* the bcftools commands started, in order.
NoProc(run) ==
    [run |-> run, error |-> "none", norm_rc |-> "none", returned |-> 0,
     ran |-> {}, calls |-> << >>]

\* Lines 645-647: a temporary directory made by mkdtemp exists and is
\* empty.  input.vcf.gz is absent, partial (a command that writes it has
\* not returned 0), raw (written by line 193, its normalization under way)
\* or complete; lifted.vcf.gz is absent, partial, unsorted (written by the
\* engine, not yet replaced by the sorted file) or complete.  An index
\* exists when bcftools index has returned 0.
EmptyDir ==
    [present |-> TRUE,
     input_vcf |-> "absent", input_tbi |-> FALSE,
     lifted_vcf |-> "absent", lifted_tbi |-> FALSE]

\* Line 692: shutil.rmtree has removed the directory and its files.
RemovedDir ==
    [present |-> FALSE,
     input_vcf |-> "absent", input_tbi |-> FALSE,
     lifted_vcf |-> "absent", lifted_tbi |-> FALSE]

\* A finally block that removes the directory whatever the options are.
CleanupAlways(a, d) == RemovedDir

\* Lines 688-693: the finally block of main(), run on every way out of
\* the try block.
Cleanup(a, d) == IF ~a.keep_temp /\ ~a.temp_dir THEN RemovedDir ELSE d

\* Nothing at output_file, unmatched_file and their .tmp paths.  A final
\* path is absent, old (left by an earlier run), partial or complete
\* (written by this run); a .tmp path is absent, stale, partial or complete.
NoOutputs ==
    [output |-> "absent", output_tmp |-> "absent",
     unmatched |-> "absent", unmatched_tmp |-> "absent"]

\* The function f ran and started the commands cmds.
Ran(p, f, cmds) == [p EXCEPT !.ran = @ \cup {f}, !.calls = @ \o cmds]

\* Line 652.
HasInputVcf == tmpdir.input_vcf # "absent" /\ tmpdir.input_tbi

\* Line 664.
HasLiftedVcf == tmpdir.lifted_vcf # "absent" /\ tmpdir.lifted_tbi

-----------------------------------------------------------------------------
(* sumstats_to_vcf *)

\* Lines 156-164: the ID column of the VCF.  chrom is the cleaned and
\* prefixed chromosome; ref and ea are the table's cells.
VcfId(row, chrom, rsid_col) ==
    LET composite == CompositeId(chrom, row.pos, Upper(row.ref), Upper(row.ea))
    IN  IF rsid_col /\ row.rsid # NA THEN row.rsid ELSE composite

\* Lines 60-87 and 152-182: one table row as a VCF record.  INFO/RSID is
\* written too; no later step reads it.
VcfRecord(row, i, a) ==
    LET chrom == PrefixChr(CleanChr(row.chr), a.add_chr_prefix)
    IN  [src |-> i,
         id |-> VcfId(row, chrom, a.rsid_col),
         chrom |-> chrom,
         pos |-> row.pos,
         ref |-> Upper(row.ref),
         alt |-> Upper(row.ea),
         orig_a1 |-> Upper(row.ea),
         orig_a2 |-> Upper(row.ref),
         preswap |-> ".",
         nswap |-> FALSE]

\* An encoder without the chromosome filter.
EncodedRecordsAnyChrom(t, a) ==
    LET all == [i \in DOMAIN t |-> VcfRecord(t[i], i, a)]
        kept == SelectSeq(all, LAMBDA r : r.pos # BadPos)
    IN  sort_values(kept)

\* Lines 83-112: the records on valid chromosomes (line 87) whose position
\* is a number (lines 91-92), sorted.
EncodedRecords(t, a) ==
    LET all == [i \in DOMAIN t |-> VcfRecord(t[i], i, a)]
        valid == SelectSeq(all, LAMBDA r : r.chrom \in all_valid)
        kept == SelectSeq(valid, LAMBDA r : r.pos # BadPos)
    IN  sort_values(kept)

\* Line 250: PRESWAP of a normalised record.
Preswap(ref, orig_a1) == IF orig_a1 # "" /\ ref = orig_a1 THEN "1" ELSE "0"

\* Lines 209-260: bcftools norm -c s exchanges REF and ALT of the records
\* in swapped; the loop of line 239 then annotates every record.
Normalized(recs, swapped) ==
    [i \in DOMAIN recs |->
        LET r == recs[i]
            ref == IF i \in swapped THEN r.alt ELSE r.ref
            alt == IF i \in swapped THEN r.ref ELSE r.alt
        IN  [r EXCEPT !.ref = ref, !.alt = alt,
                      !.preswap = Preswap(ref, r.orig_a1),
                      !.nswap = (i \in swapped)]]

\* The bcftools commands of lines 193, 209, 233, 238, 264 and 281.
EncoderCalls(norm_ok) ==
    IF norm_ok
    THEN <<"view", "norm", "view", "query", "view", "index">>
    ELSE <<"view", "norm", "index">>

\* Lines 219-272: bcftools norm returned 0.
NormSuccess(recs, swapped) ==
    [vcf |-> Normalized(recs, swapped), pc |-> "encoded", error |-> "none"]

\* A normalizer failure that ends the run.
NormFailureIsFatal(recs) ==
    [vcf |-> recs, pc |-> "failed", error |-> "EngineFailure"]

\* Lines 273-276: bcftools norm returned non-zero.  A warning is printed
\* and the VCF of line 193 is indexed and used as it is.
NormFailure(recs) ==
    [vcf |-> recs, pc |-> "encoded", error |-> "none"]

\* Lines 31-283, called at line 655.  norm_ok is the return code of
\* bcftools norm (line 217).
SumstatsToVcf ==
    /\ pc = "start"
    /\ ~HasInputVcf
    /\ ~missing_cols
    /\ \E norm_ok \in BOOLEAN :
         LET recs == EncodedRecords(table, args)
             outs == IF norm_ok
                     THEN {NormSuccess(recs, swapped) : swapped \in SUBSET DOMAIN recs}
                     ELSE {NormFailure(recs)}
         IN  \E out \in outs :
                /\ input_vcf' = out.vcf
                /\ pc' = out.pc
                /\ proc' = [Ran(proc, "sumstats_to_vcf", EncoderCalls(norm_ok))
                              EXCEPT !.error = out.error,
                                     !.norm_rc = IF norm_ok THEN "ok" ELSE "failed",
                                     !.returned = Len(recs)]
    /\ tmpdir' = [tmpdir EXCEPT !.input_vcf = "complete", !.input_tbi = TRUE]
    /\ UNCHANGED <<args, table, missing_cols, outputs, success, reject,
                   lifted_info, rejected_ids, df, lifted_out, unmatched_out,
                   summary>>
    /\ UNCHANGED export_vars

\* The statements of sumstats_to_vcf that raise when the columns are
\* there: bcftools view of line 193, bcftools view -h of line 233,
\* bcftools view of line 264, os.remove of line 268, os.remove and
\* os.rename of lines 269-270, bcftools index of line 281.
EncoderFailures == {"view", "header", "compress", "remove", "rename", "index"}

\* The exception of the statement at.
EncoderError(at) ==
    IF at \in {"remove", "rename"} THEN "OSError" ELSE "CalledProcessError"

\* The bcftools commands started when the statement at raises.
EncoderCallsAt(at, norm_ok) ==
    CASE at = "view" -> <<"view">>
      [] at = "header" -> <<"view", "norm", "view">>
      [] at \in {"compress", "remove", "rename"} ->
            <<"view", "norm", "view", "query", "view">>
      [] at = "index" -> EncoderCalls(norm_ok)

\* input.vcf.gz when the statement at raises: the failed command of line
\* 193 leaves a partial file (left) or the file old it found; lines
\* 233-268 leave the file of line 193; line 268 has removed it when lines
\* 269-270 raise; line 281 finds the final file.
EncoderFileAt(at, left, old) ==
    CASE at = "view" -> IF left THEN "partial" ELSE old
      [] at \in {"header", "compress", "remove"} -> "raw"
      [] at = "rename" -> "absent"
      [] at = "index" -> "complete"

\* An encoder that indexes input.vcf.gz as soon as line 193 has written it.
EncoderLeavesIndexedEarly(at, left, old) ==
    [input_vcf |-> EncoderFileAt(at, left, old),
     input_tbi |-> at \in {"header", "compress", "remove"}]

\* Lines 193-281: the index is made by the last statement, so no failing
\* call leaves one.
EncoderLeaves(at, left, old) ==
    [input_vcf |-> EncoderFileAt(at, left, old), input_tbi |-> FALSE]

\* Lines 31-283, a failing call.  A missing column raises ValueError
\* (lines 51-54) before anything is written; the subprocess.run(...,
\* check=True) and os calls raise at the statements of EncoderFailures.
\* The exception leaves the try block of main() through the finally
\* block.
SumstatsToVcfFails ==
    /\ pc = "start"
    /\ ~HasInputVcf
    /\ IF missing_cols
       THEN /\ proc' = [Ran(proc, "sumstats_to_vcf", << >>)
                          EXCEPT !.error = "ValueError"]
            /\ tmpdir' = Cleanup(args, tmpdir)
            /\ UNCHANGED input_vcf
       ELSE \E at \in EncoderFailures, left \in BOOLEAN, norm_ok \in BOOLEAN :
            LET recs == EncodedRecords(table, args)
                files == EncoderLeaves(at, left, tmpdir.input_vcf)
                vcfs == CASE at = "view" -> IF left THEN {<< >>} ELSE {input_vcf}
                          [] at \in {"header", "compress", "remove"} -> {recs}
                          [] at = "rename" -> {<< >>}
                          [] at = "index" ->
                                IF norm_ok
                                THEN {Normalized(recs, swapped) :
                                         swapped \in SUBSET DOMAIN recs}
                                ELSE {recs}
            IN  /\ at # "index" => norm_ok
                /\ at # "view" => left
                /\ proc' = [Ran(proc, "sumstats_to_vcf", EncoderCallsAt(at, norm_ok))
                              EXCEPT !.error = EncoderError(at),
                                     !.norm_rc = IF at = "view" THEN "none"
                                                 ELSE IF norm_ok THEN "ok"
                                                 ELSE "failed"]
                /\ tmpdir' = Cleanup(args, [tmpdir EXCEPT
                                              !.input_vcf = files.input_vcf,
                                              !.input_tbi = files.input_tbi])
                /\ input_vcf' \in vcfs
    /\ pc' = "failed"
    /\ UNCHANGED <<args, table, missing_cols, outputs, success, reject,
                   lifted_info, rejected_ids, df, lifted_out, unmatched_out,
                   summary>>
    /\ UNCHANGED export_vars

\* Lines 652-653: input.vcf.gz and its index exist, the conversion is
\* skipped and the input file is not read.
SkipConversion ==
    /\ pc = "start"
    /\ HasInputVcf
    /\ pc' = "encoded"
    /\ UNCHANGED <<args, table, missing_cols, tmpdir, outputs, proc, input_vcf,
                   success, reject, lifted_info, rejected_ids, df, lifted_out,
                   unmatched_out, summary>>
    /\ UNCHANGED export_vars

-----------------------------------------------------------------------------
(* run_liftover: the external engine bcftools +liftover *)

\* The chain file maps a source position to a target position.
ChainMap(pos) == pos + 400

Outcomes == {"lift", "lift_swap", "lift_flip", "lift_swap_flip", "reject", "drop"}

\* The record the engine writes to the success stream: REF and ALT
\* exchanged with SWAP=1 when it swaps, complemented with FLIP when it
\* reads the other strand; the INFO fields of the input are carried over.
LiftedRecord(r, o) ==
    LET sw == o \in {"lift_swap", "lift_swap_flip"}
        fl == o \in {"lift_flip", "lift_swap_flip"}
        ref0 == IF sw THEN r.alt ELSE r.ref
        alt0 == IF sw THEN r.ref ELSE r.alt
    IN  [src |-> r.src,
         id |-> r.id,
         chrom |-> r.chrom,
         pos |-> ChainMap(r.pos),
         ref |-> IF fl THEN Complement(ref0) ELSE ref0,
         alt |-> IF fl THEN Complement(alt0) ELSE alt0,
         swap |-> IF sw THEN "1" ELSE ".",
         flip |-> IF fl THEN "1" ELSE ".",
         preswap |-> r.preswap,
         nswap |-> r.nswap,
         lswap |-> sw,
         sflip |-> fl]

\* Line 340: bcftools sort; records at one position come out in any order.
SortedOrders(s) ==
    {t \in {[i \in DOMAIN s |-> s[p[i]]] : p \in Permutations(DOMAIN s)} : IsSorted(t)}

\* The bcftools commands of lines 318, 340, 346 and 350.
LiftoverCalls == <<"+liftover", "sort", "index", "index">>

\* The two streams the engine writes when record i meets outcome[i]: the
\* success stream before the sort, and the IDs of the reject stream.
EngineStreams(v, outcome) ==
    LET lifted == [i \in DOMAIN v |-> LiftedRecord(v[i], outcome[i])]
        tagged == [i \in DOMAIN v |-> [i |-> i, r |-> lifted[i]]]
        ok == SelectSeq(tagged, LAMBDA x : outcome[x.i] \notin {"reject", "drop"})
        bad == SelectSeq(tagged, LAMBDA x : outcome[x.i] = "reject")
    IN  [success |-> [k \in DOMAIN ok |-> ok[k].r],
         reject |-> [k \in DOMAIN bad |-> bad[k].r.id]]

\* Lines 318-341: every pair of a sorted success stream and a reject
\* stream the engine can make of the records v.
EngineOutputs(v) ==
    UNION {LET e == EngineStreams(v, outcome)
           IN  {[success |-> s, reject |-> e.reject] : s \in SortedOrders(e.success)} :
           outcome \in [DOMAIN v -> Outcomes]}

\* Lines 286-353, called at line 668.  Every input record is lifted,
\* rejected, or in neither stream.
RunLiftover ==
    /\ pc = "encoded"
    /\ ~HasLiftedVcf
    /\ \E outcome \in [DOMAIN input_vcf -> Outcomes] :
         LET e == EngineStreams(input_vcf, outcome)
         IN  /\ success' \in SortedOrders(e.success)
             /\ reject' = e.reject
    /\ pc' = "lifted"
    /\ tmpdir' = [tmpdir EXCEPT !.lifted_vcf = "complete", !.lifted_tbi = TRUE]
    /\ proc' = Ran(proc, "run_liftover", LiftoverCalls)
    /\ UNCHANGED <<args, table, missing_cols, outputs, input_vcf, lifted_info,
                   rejected_ids, df, lifted_out, unmatched_out, summary>>
    /\ UNCHANGED export_vars

\* The ways run_liftover fails: the engine exits non-zero (line 326), it
\* exits 0 and there is no output file (line 331), bcftools sort or the
\* rename fails (lines 340-341), bcftools index fails on lifted.vcf.gz
\* (line 346) or on the rejected file (line 350).
LiftoverFailures == {"nonzero", "no_output", "sort", "index", "index_rejected"}

\* The exception of a failure.
LiftoverError(how) ==
    IF how \in {"nonzero", "no_output"} THEN "RuntimeError" ELSE "CalledProcessError"

\* The bcftools commands started when run_liftover fails.
LiftoverCallsAt(how) ==
    CASE how \in {"nonzero", "no_output"} -> <<"+liftover">>
      [] how = "sort" -> <<"+liftover", "sort">>
      [] how = "index" -> <<"+liftover", "sort", "index">>
      [] how = "index_rejected" -> LiftoverCalls

\* An engine failure that is reported and survived.
LiftoverWarns(how) ==
    [pc |-> "lifted", error |-> LiftoverError(how), calls |-> LiftoverCallsAt(how)]

\* Lines 326-332 and 340-350: the exception leaves run_liftover and the
\* try block of main(); there is no except clause and no retry.
LiftoverRaises(how) ==
    [pc |-> "failed", error |-> LiftoverError(how), calls |-> LiftoverCallsAt(how)]

\* lifted.vcf.gz and its index when run_liftover fails: the failed engine
\* leaves a partial file (left) or the file old it found; the sorted file
\* replaces the engine's at line 341; the index of line 346 is there when
\* line 350 raises.
LiftoverLeaves(how, left, old) ==
    [lifted_vcf |-> CASE how = "nonzero" -> IF left THEN "partial" ELSE old
                      [] how = "no_output" -> "absent"
                      [] how = "sort" -> "unsorted"
                      [] how \in {"index", "index_rejected"} -> "complete",
     lifted_tbi |-> how = "index_rejected"]

\* Lines 286-350, a failing call.
RunLiftoverFails ==
    /\ pc = "encoded"
    /\ ~HasLiftedVcf
    /\ \E how \in LiftoverFailures, left \in BOOLEAN :
         LET out == LiftoverRaises(how)
             files == LiftoverLeaves(how, left, tmpdir.lifted_vcf)
             streams == IF how \in {"index", "index_rejected"}
                        THEN EngineOutputs(input_vcf)
                        ELSE {[success |-> << >>, reject |-> << >>]}
         IN  /\ how # "nonzero" => left
             /\ how = "no_output" => tmpdir.lifted_vcf = "absent"
             /\ pc' = out.pc
             /\ proc' = [Ran(proc, "run_liftover", out.calls)
                           EXCEPT !.error = out.error]
             /\ tmpdir' = Cleanup(args, [tmpdir EXCEPT
                                           !.lifted_vcf = files.lifted_vcf,
                                           !.lifted_tbi = files.lifted_tbi])
             /\ \E e \in streams :
                    /\ success' = e.success
                    /\ reject' = e.reject
    /\ UNCHANGED <<args, table, missing_cols, outputs, input_vcf, lifted_info,
                   rejected_ids, df, lifted_out, unmatched_out, summary>>
    /\ UNCHANGED export_vars

\* Lines 664-666: lifted.vcf.gz and its index exist, the engine is not run.
SkipLiftover ==
    /\ pc = "encoded"
    /\ HasLiftedVcf
    /\ pc' = "lifted"
    /\ UNCHANGED <<args, table, missing_cols, tmpdir, outputs, proc, input_vcf,
                   success, reject, lifted_info, rejected_ids, df, lifted_out,
                   unmatched_out, summary>>
    /\ UNCHANGED export_vars

-----------------------------------------------------------------------------
(* parse_lifted_vcf *)

\* A flag field that reads as set when it is absent.
FlagFieldMissingIsSet(f) == IF f # "." THEN f ELSE "1"

\* Lines 382-384: a flag field that is absent or '.' reads as '0'.
FlagField(f) == IF f # "." THEN f ELSE "0"

\* A flip decision that flips when either swap happened.
EffectFlippedEither(preswap, swap) == (preswap = "1") \/ (swap = "1")

\* Line 394.
EffectFlipped(preswap, swap) == (preswap = "1") # (swap = "1")

\* A dict entry whose flip decision counts the strand flip as a swap.
LiftedEntryFlipCounts(r) ==
    LET swap == FlagField(r.swap)
        flip == FlagField(r.flip)
        preswap == FlagField(r.preswap)
    IN  [chr |-> r.chrom,
         pos |-> r.pos,
         ref |-> r.ref,
         alt |-> r.alt,
         swap |-> (swap = "1"),
         flip |-> (flip = "1"),
         preswap |-> (preswap = "1"),
         effect_flipped |-> (EffectFlipped(preswap, swap) # (flip = "1")),
         status |-> "lifted",
         src |-> r.src,
         nswap |-> r.nswap,
         lswap |-> r.lswap,
         sflip |-> r.sflip]

\* Lines 396-406: the dict entry of one success record.
LiftedEntry(r) ==
    LET swap == FlagField(r.swap)
        flip == FlagField(r.flip)
        preswap == FlagField(r.preswap)
    IN  [chr |-> r.chrom,
         pos |-> r.pos,
         ref |-> r.ref,
         alt |-> r.alt,
         swap |-> (swap = "1"),
         flip |-> (flip = "1"),
         preswap |-> (preswap = "1"),
         effect_flipped |-> EffectFlipped(preswap, swap),
         status |-> "lifted",
         src |-> r.src,
         nswap |-> r.nswap,
         lswap |-> r.lswap,
         sflip |-> r.sflip]

\* Lines 366-406: a later record with the same ID replaces an earlier one.
LiftedVariants(s) ==
    [id \in {s[i].id : i \in DOMAIN s} |->
        LET last == CHOOSE i \in DOMAIN s :
                        /\ s[i].id = id
                        /\ \A j \in DOMAIN s : s[j].id = id => j <= i
        IN  LiftedEntry(s[last])]

\* A parse that reads the success stream only.
ParseCallsSuccessOnly == <<"query">>

\* The bcftools commands of lines 370 and 412.
ParseCalls == <<"query", "query">>

\* Lines 356-418, called at line 671.
ParseLiftedVcf ==
    /\ pc = "lifted"
    /\ lifted_info' = LiftedVariants(success)
    /\ rejected_ids' = reject
    /\ pc' = "parsed"
    /\ proc' = Ran(proc, "parse_lifted_vcf", ParseCalls)
    /\ UNCHANGED <<args, table, missing_cols, tmpdir, outputs, input_vcf,
                   success, reject, df, lifted_out, unmatched_out, summary>>
    /\ UNCHANGED export_vars

\* Lines 370 and 412: bcftools query fails (check=True).
ParseLiftedVcfFails ==
    /\ pc = "lifted"
    /\ pc' = "failed"
    /\ proc' = [Ran(proc, "parse_lifted_vcf", <<"query">>)
                  EXCEPT !.error = "CalledProcessError"]
    /\ tmpdir' = Cleanup(args, tmpdir)
    /\ UNCHANGED <<args, table, missing_cols, outputs, input_vcf,
                   success, reject, lifted_info, rejected_ids, df, lifted_out,
                   unmatched_out, summary>>
    /\ UNCHANGED export_vars

-----------------------------------------------------------------------------
(* update_sumstats *)

\* Lines 449-461: the key a table row is matched by.
VariantId(row, rsid_col) ==
    LET composite == CompositeId(row.chr, row.pos, row.ref, row.ea)
    IN  IF rsid_col /\ row.rsid # NA THEN row.rsid ELSE composite

\* Lines 505-508: each name of effect_cols in turn, if it is a column.
RECURSIVE NegateCols(_, _)
NegateCols(stats, cols) ==
    IF cols = << >> THEN stats
    ELSE LET col == Head(cols)
         IN  NegateCols(IF col \in DOMAIN stats
                        THEN [stats EXCEPT ![col] = -@]
                        ELSE stats,
                        Tail(cols))

\* Lines 511-514: each name of eaf_cols in turn, if it is a column.
RECURSIVE ComplementCols(_, _)
ComplementCols(stats, cols) ==
    IF cols = << >> THEN stats
    ELSE LET col == Head(cols)
         IN  ComplementCols(IF col \in DOMAIN stats
                            THEN [stats EXCEPT ![col] = 1 - @]
                            ELSE stats,
                            Tail(cols))

\* Line 474.
LiftedMask(id, info) == id \in DOMAIN info

\* Line 475.
RejectedMask(id, ids) == id \in Range(ids)

\* A flip mask that takes every lifted row.
FlipMaskEveryLifted(id, info) == LiftedMask(id, info)

\* Line 496.
FlipMask(id, info) == LiftedMask(id, info) /\ info[id].effect_flipped

\* A status column that starts as 'rejected'.
StatusStartsRejected(id, info, ids) ==
    IF RejectedMask(id, ids) THEN "rejected"
    ELSE IF LiftedMask(id, info) THEN "lifted"
    ELSE "rejected"

\* Lines 463-517: LIFTOVER_STATUS of a row.
Status(id, info, ids) ==
    IF RejectedMask(id, ids) THEN "rejected"
    ELSE IF LiftedMask(id, info) THEN "lifted"
    ELSE "unknown"

\* Lines 486-502: the allele columns of a row.
Alleles(row, id, info) ==
    LET ref1 == IF LiftedMask(id, info) THEN info[id].ref ELSE row.ref
        ea1 == IF LiftedMask(id, info) THEN info[id].alt ELSE row.ea
    IN  IF FlipMask(id, info)
        THEN [ea |-> ref1, ref |-> ea1]
        ELSE [ea |-> ea1, ref |-> ref1]

\* Lines 498-514: the statistics columns of a row.
Stats(row, id, info, a) ==
    IF FlipMask(id, info)
    THEN ComplementCols(NegateCols(row.stats, a.effect_cols), a.eaf_cols)
    ELSE row.stats

\* What pandas writes for a position that is no number.
NaN == -2

\* Line 470: pd.to_numeric(df[pos_col], errors='coerce') turns a position
\* cell that is no number into NaN.
ToNumeric(pos) == IF pos = BadPos THEN NaN ELSE pos

\* Lines 447-529: one row of the data frame after every update.  Line 529
\* replaces the position column by LIFTED_POS in every row.
UpdatedRow(row, i, info, ids, a) ==
    LET id == VariantId(row, a.rsid_col)
        hit == LiftedMask(id, info)
        al == Alleles(row, id, info)
    IN  [idx |-> i,
         variant_id |-> id,
         chr |-> IF hit THEN info[id].chr ELSE row.chr,
         pos |-> IF hit THEN info[id].pos ELSE ToNumeric(row.pos),
         ea |-> al.ea,
         ref |-> al.ref,
         rsid |-> row.rsid,
         stats |-> Stats(row, id, info, a),
         LIFTOVER_STATUS |-> Status(id, info, ids),
         PRESWAP |-> IF hit THEN info[id].preswap ELSE FALSE,
         ALLELE_SWAP |-> IF hit THEN info[id].swap ELSE FALSE,
         STRAND_FLIP |-> IF hit THEN info[id].flip ELSE FALSE,
         lifted_mask |-> hit,
         flip_mask |-> FlipMask(id, info)]

\* Lines 531-535 and 570-575.
Summary(d) ==
    LET total_count == Len(d)
        matched_count == Cardinality({i \in DOMAIN d : d[i].lifted_mask})
    IN  [total |-> total_count,
         lifted |-> matched_count,
         strand_flipped |-> Cardinality({i \in DOMAIN d : d[i].STRAND_FLIP}),
         allele_swapped |-> Cardinality({i \in DOMAIN d : d[i].flip_mask}),
         failed |-> total_count - matched_count]

\* Lines 544 and 560: the columns of a written row (_variant_id and the
\* LIFTED_ columns dropped; the masks are no columns).
chunk_clean(r) ==
    [idx |-> r.idx, chr |-> r.chr, pos |-> r.pos, ea |-> r.ea, ref |-> r.ref,
     rsid |-> r.rsid, stats |-> r.stats,
     LIFTOVER_STATUS |-> r.LIFTOVER_STATUS, PRESWAP |-> r.PRESWAP,
     ALLELE_SWAP |-> r.ALLELE_SWAP, STRAND_FLIP |-> r.STRAND_FLIP]

\* Line 543.
LiftedChunk(d) ==
    LET chunk == SelectSeq(d, LAMBDA r : r.LIFTOVER_STATUS = "lifted")
    IN  [k \in DOMAIN chunk |-> chunk_clean(chunk[k])]

\* An unmatched output that takes the rejected rows only.
UnmatchedChunkRejectedOnly(d) ==
    LET chunk == SelectSeq(d, LAMBDA r : r.LIFTOVER_STATUS = "rejected")
    IN  [k \in DOMAIN chunk |-> chunk_clean(chunk[k])]

\* Line 559.
UnmatchedChunk(d) ==
    LET chunk == SelectSeq(d, LAMBDA r : r.LIFTOVER_STATUS # "lifted")
    IN  [k \in DOMAIN chunk |-> chunk_clean(chunk[k])]

\* Lines 447-529: the data frame after every update.
UpdatedFrame ==
    [i \in DOMAIN table |->
        UpdatedRow(table[i], i, lifted_info, rejected_ids, args)]

\* Lines 539-568 when nothing raises: both files are written to their
\* .tmp paths and renamed, the primary first.
FilesWritten ==
    [output |-> "complete", output_tmp |-> "absent",
     unmatched |-> "complete", unmatched_tmp |-> "absent"]

\* Lines 421-575, called at line 677; main() then leaves the try block
\* through the finally block (lines 686-693).
UpdateSumstats ==
    /\ pc = "parsed"
    /\ ~missing_cols
    /\ LET d == UpdatedFrame
       IN  /\ df' = d
           /\ lifted_out' = LiftedChunk(d)
           /\ unmatched_out' = UnmatchedChunk(d)
           /\ summary' = Summary(d)
    /\ outputs' = FilesWritten
    /\ proc' = Ran(proc, "update_sumstats", << >>)
    /\ pc' = "done"
    /\ tmpdir' = Cleanup(args, tmpdir)
    /\ UNCHANGED <<args, table, missing_cols, input_vcf, success, reject,
                   lifted_info, rejected_ids>>
    /\ UNCHANGED export_vars

\* The statements of update_sumstats that raise: the first read of a
\* required column (lines 455-461), to_csv (lines 546 and 562), os.remove
\* (lines 551 and 567) and os.rename (lines 552 and 568).
UpdateFailures ==
    {"read", "write_output", "remove_output", "rename_output",
     "write_unmatched", "remove_unmatched", "rename_unmatched"}

\* The failures that come after line 552 has renamed the primary output.
AfterPrimary == {"write_unmatched", "remove_unmatched", "rename_unmatched"}

\* Output files that are written in place.
FilesAtInPlace(at, o) ==
    CASE at = "read" -> o
      [] at \in {"write_output", "remove_output", "rename_output"} ->
            [o EXCEPT !.output = "partial"]
      [] OTHER ->
            [o EXCEPT !.output = "complete", !.unmatched = "partial"]

\* Lines 539-568: the four paths when the statement at raises.
FilesAt(at, o) ==
    CASE at = "read" -> o
      [] at = "write_output" -> [o EXCEPT !.output_tmp = "partial"]
      [] at = "remove_output" -> [o EXCEPT !.output_tmp = "complete"]
      [] at = "rename_output" ->
            [o EXCEPT !.output_tmp = "complete", !.output = "absent"]
      [] at = "write_unmatched" ->
            [o EXCEPT !.output = "complete", !.output_tmp = "absent",
                      !.unmatched_tmp = "partial"]
      [] at = "remove_unmatched" ->
            [o EXCEPT !.output = "complete", !.output_tmp = "absent",
                      !.unmatched_tmp = "complete"]
      [] at = "rename_unmatched" ->
            [o EXCEPT !.output = "complete", !.output_tmp = "absent",
                      !.unmatched_tmp = "complete", !.unmatched = "absent"]

\* Lines 421-568, a failing call.  A missing column raises KeyError at
\* the first read; os.remove is called on a path that exists only.  The
\* summary of lines 570-575 is not printed.
UpdateSumstatsFails ==
    /\ pc = "parsed"
    /\ \E at \in UpdateFailures :
         /\ missing_cols <=> at = "read"
         /\ at = "remove_output" => outputs.output # "absent"
         /\ at = "remove_unmatched" => outputs.unmatched # "absent"
         /\ outputs' = FilesAt(at, outputs)
         /\ df' = IF at = "read" THEN df ELSE UpdatedFrame
         /\ lifted_out' = IF at \in AfterPrimary
                          THEN LiftedChunk(UpdatedFrame) ELSE lifted_out
         /\ proc' = [Ran(proc, "update_sumstats", << >>)
                       EXCEPT !.error = IF at = "read" THEN "KeyError" ELSE "OSError"]
    /\ pc' = "failed"
    /\ tmpdir' = Cleanup(args, tmpdir)
    /\ UNCHANGED <<args, table, missing_cols, input_vcf, success, reject,
                   lifted_info, rejected_ids, unmatched_out, summary>>
    /\ UNCHANGED export_vars

-----------------------------------------------------------------------------
(* The runs of main() *)

NoSummary == [total |-> 0, lifted |-> 0, strand_flipped |-> 0,
              allele_swapped |-> 0, failed |-> 0]

RowsOf(chrs, poss, eas, refs, rsids, stats) ==
    [chr : chrs, pos : poss, ea : eas, ref : refs, rsid : rsids, stats : stats]

Tables(rows, n) == UNION {[1..k -> rows] : k \in 1..n}

\* Tables of several rows, some of them on no valid chromosome, some
\* with the same rsid or the same coordinates and alleles.
InitTables ==
    /\ table \in Tables(RowsOf({"1", "Un"}, Positions, {"A"}, {"G"}, {NA, "rs1"},
                               {[BETA |-> 2, EAF |-> 0]}),
                        MaxRows)
    /\ args = [add_chr_prefix |-> FALSE, rsid_col |-> TRUE,
               effect_cols |-> <<"BETA">>, eaf_cols |-> <<"EAF">>,
               temp_dir |-> FALSE, keep_temp |-> FALSE]

\* One row, every list of --effect-col and --eaf-col names.
InitColumns ==
    /\ table \in Tables(RowsOf({"1"}, {100}, {"A"}, {"G"}, {NA}, StatSamples), 1)
    /\ \E ec \in SeqsUpTo(CallerNames, MaxListLen),
          fc \in SeqsUpTo(CallerNames, MaxListLen) :
         args = [add_chr_prefix |-> FALSE, rsid_col |-> FALSE,
                 effect_cols |-> ec, eaf_cols |-> fc, temp_dir |-> FALSE, keep_temp |-> FALSE]

\* One row, every spelling of the chromosome and the alleles.
InitSpellings ==
    /\ table \in Tables(RowsOf({"1", "1.0", "chr1", "X", "chrMT", "chrUn"}, {100},
                               {"A", "a", "G"}, {"A", "G", "g"}, {NA, "rs1"},
                               StatSamples), 1)
    /\ \E p \in BOOLEAN, r \in BOOLEAN :
         args = [add_chr_prefix |-> p, rsid_col |-> r,
                 effect_cols |-> <<"BETA">>, eaf_cols |-> <<"EAF">>,
                 temp_dir |-> FALSE, keep_temp |-> FALSE]

\* Lines 578-647: the first run of main(), in a fresh temporary directory
\* and with nothing at the output paths.
FirstRun ==
    /\ pc = "start"
    /\ tmpdir = EmptyDir
    /\ outputs = NoOutputs
    /\ proc = NoProc(1)
    /\ input_vcf = << >>
    /\ success = << >>
    /\ reject = << >>
    /\ lifted_info = << >>
    /\ rejected_ids = << >>
    /\ df = << >>
    /\ lifted_out = << >>
    /\ unmatched_out = << >>
    /\ summary = NoSummary
    /\ pheno = << >>
    /\ d_set = << >>

Init ==
    /\ InitTables \/ InitColumns \/ InitSpellings
    /\ missing_cols = FALSE
    /\ FirstRun

Next ==
    \/ SumstatsToVcf
    \/ RunLiftover
    \/ ParseLiftedVcf
    \/ UpdateSumstats

Spec == Init /\ [][Next]_vars

-----------------------------------------------------------------------------
(* sumstats_to_vcf alone *)

\* Chromosome cells: plain, prefixed, numeric with a fraction, and names
\* outside the recognised set.
ChrSamples == {"2", "10", "10.0", "chr2", "X", "chrMT", "Un", "23"}

\* Tables over many chromosomes, with position cells that are no number.
InitEncoder ==
    /\ table \in Tables(RowsOf(ChrSamples, Positions \cup {BadPos}, {"A"}, {"G"},
                               {NA}, {[BETA |-> 2, EAF |-> 0]}),
                        MaxRows)
    /\ \E p \in BOOLEAN :
         args = [add_chr_prefix |-> p, rsid_col |-> FALSE,
                 effect_cols |-> <<"BETA">>, eaf_cols |-> <<"EAF">>,
                 temp_dir |-> FALSE, keep_temp |-> FALSE]
    /\ missing_cols = FALSE
    /\ FirstRun

SpecEncoder == InitEncoder /\ [][SumstatsToVcf]_vars

-----------------------------------------------------------------------------
(* Runs of main() that may fail, one after another *)

\* One row, its position a number or not; the input file of a run may
\* lack a required column, and --temp-dir and --keep-temp may be given.
InitRun ==
    /\ table \in Tables(RowsOf({"1"}, Positions \cup {BadPos}, {"A"}, {"G"}, {NA},
                               {[BETA |-> 2, EAF |-> 0]}), 1)
    /\ \E t \in BOOLEAN, k \in BOOLEAN :
         args = [add_chr_prefix |-> FALSE, rsid_col |-> FALSE,
                 effect_cols |-> <<"BETA">>, eaf_cols |-> <<"EAF">>,
                 temp_dir |-> t, keep_temp |-> k]
    /\ missing_cols \in BOOLEAN
    /\ FirstRun

\* What a run finds at a final path an earlier run has left.
LeftFinal(f) == IF f = "complete" THEN "old" ELSE f

\* What a run finds at a .tmp path an earlier run has left.
LeftTmp(f) == IF f \in {"partial", "complete"} THEN "stale" ELSE f

\* Lines 641-647: main() has ended and the caller starts it again with
\* the same arguments on an input file of its choice.  With --temp-dir the
\* run works in the directory the earlier run has left; without it mkdtemp
\* makes a new, empty directory (a directory kept by --keep-temp is not
\* used again).
NewRun ==
    /\ pc \in {"done", "failed"}
    /\ proc.run < MaxRuns
    /\ pc' = "start"
    /\ proc' = NoProc(proc.run + 1)
    /\ table' \in Tables(RowsOf({"1"}, Positions \cup {BadPos}, {"A"}, {"G"}, {NA},
                                {[BETA |-> 2, EAF |-> 0]}), 1)
    /\ missing_cols' \in BOOLEAN
    /\ outputs' = [output |-> LeftFinal(outputs.output),
                   output_tmp |-> LeftTmp(outputs.output_tmp),
                   unmatched |-> LeftFinal(outputs.unmatched),
                   unmatched_tmp |-> LeftTmp(outputs.unmatched_tmp)]
    /\ IF args.temp_dir
       THEN UNCHANGED <<tmpdir, input_vcf, success, reject>>
       ELSE /\ tmpdir' = EmptyDir
            /\ input_vcf' = << >>
            /\ success' = << >>
            /\ reject' = << >>
    /\ lifted_info' = << >>
    /\ rejected_ids' = << >>
    /\ df' = << >>
    /\ lifted_out' = << >>
    /\ unmatched_out' = << >>
    /\ summary' = NoSummary
    /\ UNCHANGED args
    /\ UNCHANGED export_vars

NextRun ==
    \/ SumstatsToVcf
    \/ SumstatsToVcfFails
    \/ SkipConversion
    \/ RunLiftover
    \/ RunLiftoverFails
    \/ SkipLiftover
    \/ ParseLiftedVcf
    \/ ParseLiftedVcfFails
    \/ UpdateSumstats
    \/ UpdateSumstatsFails
    \/ NewRun

SpecRun == InitRun /\ [][NextRun]_vars

-----------------------------------------------------------------------------
(* export_plink_preprocess.py: the phenotype columns *)

\* The cells of a phenotype column: 0, 1, 2, -9, another number, and a
\* missing cell (NaN).
PhenoValues == {0, 1, 2, -9, 3, NaN}

\* Line 107: d_set[pheno_col].dropna().unique().
unique_vals(col) == {col[i] : i \in DOMAIN col} \ {NaN}

\* Line 112: .map({0: 1, 1: 2}).fillna(-9).astype(int).
MapBinary(v) == IF v = 0 THEN 1 ELSE IF v = 1 THEN 2 ELSE -9

\* Line 115: .fillna(-9).astype(int).
FillMissing(v) == IF v = NaN THEN -9 ELSE v

\* Lines 107-116: the column after the conversion.  A column that is in
\* neither coding is left as it is.
RecodePhenotype(col) ==
    LET u == unique_vals(col)
    IN  IF u \subseteq {0, 1} /\ Cardinality(u) > 0
        THEN [i \in DOMAIN col |-> MapBinary(col[i])]
        ELSE IF u \subseteq {1, 2, -9}
        THEN [i \in DOMAIN col |-> FillMissing(col[i])]
        ELSE col

\* Lines 104-116: one phenotype column of d_set is converted.
ConvertPhenotype ==
    /\ pc = "preprocess"
    /\ d_set' = RecodePhenotype(d_set)
    /\ pc' = "exported"
    /\ UNCHANGED <<args, table, missing_cols, tmpdir, outputs, proc, input_vcf,
                   success, reject, lifted_info, rejected_ids, df, lifted_out,
                   unmatched_out, summary, pheno>>

\* Every phenotype column of up to MaxPhenoRows cells; nothing of the
\* liftover is running.
InitPheno ==
    /\ pc = "preprocess"
    /\ pheno \in SeqsUpTo(PhenoValues, MaxPhenoRows)
    /\ d_set = pheno
    /\ args = [add_chr_prefix |-> FALSE, rsid_col |-> FALSE,
               effect_cols |-> << >>, eaf_cols |-> << >>,
               temp_dir |-> FALSE, keep_temp |-> FALSE]
    /\ table = << >>
    /\ missing_cols = FALSE
    /\ tmpdir = EmptyDir
    /\ outputs = NoOutputs
    /\ proc = NoProc(1)
    /\ input_vcf = << >>
    /\ success = << >>
    /\ reject = << >>
    /\ lifted_info = << >>
    /\ rejected_ids = << >>
    /\ df = << >>
    /\ lifted_out = << >>
    /\ unmatched_out = << >>
    /\ summary = NoSummary

SpecPheno == InitPheno /\ [][ConvertPhenotype]_vars

-----------------------------------------------------------------------------
(* Vocabulary of the properties *)

Done == pc = "done"

\* The rows of an output, by their position in the input table.
Indexes(out) == {out[k].idx : k \in DOMAIN out}

\* The lifted information a row of the data frame was updated from.
InfoOf(d) == lifted_info[d.variant_id]

\* The caller named every statistics column once, in its own role.
NominalLists == args.effect_cols = <<"BETA">> /\ args.eaf_cols = <<"EAF">>

\* The table columns the caller designated as effect / frequency columns.
EffectColumns == Range(args.effect_cols) \cap StatCols
FrequencyColumns == Range(args.eaf_cols) \cap StatCols

Negated(out, in) == \A c \in EffectColumns : out.stats[c] = -in.stats[c]
Complemented(out, in) == \A c \in FrequencyColumns : out.stats[c] = 1 - in.stats[c]
Untouched(out, in) ==
    \A c \in EffectColumns \cup FrequencyColumns : out.stats[c] = in.stats[c]

-----------------------------------------------------------------------------
(* Polarity *)

\* The record was lifted from its own VCF record, the engine read the same
\* strand, and the row's two alleles are different upper-case letters.
PlainSwapCase(r) ==
    LET row == table[r.idx]
        e == InfoOf(df[r.idx])
    IN  /\ e.src = r.idx
        /\ ~e.sflip
        /\ row.ea # row.ref
        /\ row.ea = Upper(row.ea)
        /\ row.ref = Upper(row.ref)
        /\ NominalLists

\* C1: polarity is preserved end to end.  For every lifted record that the
\* normalizer and the engine at most swapped (no strand flip, effect allele
\* different from reference allele): if the output effect allele is the
\* input effect allele, every effect and frequency column has its input
\* value; if it is the input reference allele, every effect column is
\* negated and every frequency column is 1 - f.
C1_PolarityPreserved ==
    Done =>
        \A k \in DOMAIN lifted_out :
            LET r == lifted_out[k]
                row == table[r.idx]
            IN  PlainSwapCase(r) =>
                    /\ r.ea = row.ea => Untouched(r, row)
                    /\ r.ea = row.ref => Negated(r, row) /\ Complemented(r, row)

\* The statistics of a row with the numeric flip applied once: the effect
\* column negated, the frequency column complemented.
FlippedOnce(stats) == [c \in DOMAIN stats |-> IF c = "BETA" THEN -stats[c] ELSE 1 - stats[c]]

\* C2: for every record of the success stream, effect_flipped is
\* pre_swap XOR allele_swap, where pre_swap is the PRESWAP the encoder wrote
\* and allele_swap is whether the engine exchanged REF and ALT; and
\* update_sumstats flips the statistics of a row exactly when the
\* effect_flipped of its identity is true.
C2_FlipIsXor ==
    /\ pc \in {"parsed", "done"} =>
          \A k \in DOMAIN success :
              LET r == success[k]
                  e == lifted_info[r.id]
              IN  e.src = r.src =>
                      /\ e.preswap = (r.preswap = "1")
                      /\ e.swap = r.lswap
                      /\ e.effect_flipped = ((r.preswap = "1") # r.lswap)
    /\ Done =>
          \A i \in DOMAIN df :
              LET d == df[i]
                  decided == d.variant_id \in DOMAIN lifted_info /\ InfoOf(d).effect_flipped
              IN  /\ d.flip_mask = decided
                  /\ NominalLists => (d.stats = FlippedOnce(table[i].stats)) = decided
                  /\ NominalLists => (d.stats = table[i].stats) = ~decided

\* C2 witness: one table with a record swapped twice and left unflipped and
\* a record swapped once by the engine and flipped.
C2_Witness ==
    /\ Done
    /\ \E i, j \in DOMAIN df :
         /\ df[i].PRESWAP /\ df[i].ALLELE_SWAP /\ ~df[i].flip_mask
         /\ df[i].LIFTOVER_STATUS = "lifted"
         /\ ~df[j].PRESWAP /\ df[j].ALLELE_SWAP /\ df[j].flip_mask
         /\ df[j].stats = FlippedOnce(table[j].stats)

\* The row is fully flipped: the target alleles exchanged, every listed
\* effect column negated, every listed frequency column complemented.
FullyFlipped(r) ==
    LET e == InfoOf(df[r.idx])
    IN  /\ r.ea = e.ref /\ r.ref = e.alt
        /\ Negated(r, table[r.idx])
        /\ Complemented(r, table[r.idx])

\* The row is fully unflipped: the target alleles as they are, every listed
\* column as in the input.
FullyUnflipped(r) ==
    LET e == InfoOf(df[r.idx])
    IN  /\ r.ea = e.alt /\ r.ref = e.ref
        /\ Untouched(r, table[r.idx])

\* C3: flip atomicity.  For every list of effect and frequency column
\* names, repeated and overlapping names included, every lifted record is
\* fully flipped or fully unflipped.
C3_FlipAtomic ==
    Done => \A k \in DOMAIN lifted_out :
                FullyFlipped(lifted_out[k]) \/ FullyUnflipped(lifted_out[k])

\* C4: a lifted record with effect_flipped true is written with the
\* engine's target chromosome and position, the target alleles exchanged
\* (effect allele = target REF, reference allele = target ALT), every effect
\* column negated and every frequency column replaced by 1 - f.
C4_FlippedRow ==
    Done =>
        \A k \in DOMAIN lifted_out :
            LET r == lifted_out[k]
                e == InfoOf(df[r.idx])
            IN  e.effect_flipped =>
                    /\ r.chr = e.chr /\ r.pos = e.pos
                    /\ r.ea = e.ref /\ r.ref = e.alt
                    /\ Negated(r, table[r.idx])
                    /\ Complemented(r, table[r.idx])

\* C5: a lifted record with effect_flipped false (both swaps included) is
\* written with the engine's target chromosome, position and alleles
\* (effect allele = target ALT, reference allele = target REF) and with
\* every effect and frequency column as in the input.
C5_UnflippedRow ==
    Done =>
        \A k \in DOMAIN lifted_out :
            LET r == lifted_out[k]
                e == InfoOf(df[r.idx])
            IN  ~e.effect_flipped =>
                    /\ r.chr = e.chr /\ r.pos = e.pos
                    /\ r.ea = e.alt /\ r.ref = e.ref
                    /\ r.stats = table[r.idx].stats

\* C5 witness: a record swapped by the normalizer and by the engine is
\* written at its target position with its statistics as they were.
C5_Witness ==
    /\ Done
    /\ \E k \in DOMAIN lifted_out :
         LET r == lifted_out[k]
         IN  /\ r.PRESWAP /\ r.ALLELE_SWAP
             /\ ~InfoOf(df[r.idx]).effect_flipped
             /\ r.pos # table[r.idx].pos
             /\ r.stats = table[r.idx].stats

-----------------------------------------------------------------------------
(* Partition and identity *)

\* C6: every input record is in exactly one of the two outputs: the
\* outputs are disjoint, together they hold every input row, rows the
\* encoder filtered out included, and their lengths add up to the input's.
C6_Partition ==
    Done =>
        /\ Indexes(lifted_out) \cap Indexes(unmatched_out) = {}
        /\ Indexes(lifted_out) \cup Indexes(unmatched_out) = DOMAIN table
        /\ Cardinality(Indexes(lifted_out)) = Len(lifted_out)
        /\ Cardinality(Indexes(unmatched_out)) = Len(unmatched_out)
        /\ Len(lifted_out) + Len(unmatched_out) = Len(table)

\* C6 witness: a table with a row the encoder filtered out and a row the
\* engine lifted; both outputs are written.
C6_Witness ==
    /\ Done
    /\ \E i \in DOMAIN table : \A k \in DOMAIN input_vcf : input_vcf[k].src # i
    /\ lifted_out # << >>
    /\ unmatched_out # << >>

\* C7: the identity key is stable across stages: the ID sumstats_to_vcf
\* writes for a row is the _variant_id update_sumstats computes for it, so a
\* record the engine lifted is matched as lifted.
C7_IdentityStable ==
    /\ \A k \in DOMAIN input_vcf :
          input_vcf[k].id = VariantId(table[input_vcf[k].src], args.rsid_col)
    /\ Done => \A k \in DOMAIN success : df[success[k].src].lifted_mask

\* C8: two input records with the same identity abort the run; they are
\* never both matched to one engine result.
C8_CollisionIsFatal ==
    Done =>
        \A i, j \in DOMAIN df :
            i # j => df[i].variant_id # df[j].variant_id

\* C9: a record whose identity is in the reject stream ends rejected, in
\* the unmatched output, with chromosome, position, alleles, swap flags and
\* statistics as in the input, also when the identity is in the success
\* stream too.
C9_RejectedUnchanged ==
    Done =>
        \A i \in DOMAIN df :
            LET d == df[i]
                row == table[i]
            IN  d.variant_id \in Range(reject) =>
                    /\ d.LIFTOVER_STATUS = "rejected"
                    /\ i \in Indexes(unmatched_out)
                    /\ d.chr = row.chr /\ d.pos = row.pos
                    /\ d.ea = row.ea /\ d.ref = row.ref
                    /\ ~d.PRESWAP /\ ~d.ALLELE_SWAP /\ ~d.STRAND_FLIP
                    /\ d.stats = row.stats

\* The rows whose identity is in neither stream, and the rows whose
\* identity is in the reject stream only.
UnknownRows ==
    {i \in DOMAIN df : /\ \A k \in DOMAIN success : success[k].id # df[i].variant_id
                       /\ df[i].variant_id \notin Range(reject)}
RejectedOnlyRows ==
    {i \in DOMAIN df : /\ \A k \in DOMAIN success : success[k].id # df[i].variant_id
                       /\ df[i].variant_id \in Range(reject)}

\* C10 as stated: a record whose identity is in neither stream ends
\* unknown, in the unmatched output, and the run summary counts the unknown
\* records separately from the rejected ones (some counter of the summary
\* is the number of unknown records).
C10_UnknownCountedSeparately ==
    Done =>
        /\ \A i \in UnknownRows :
              /\ df[i].LIFTOVER_STATUS = "unknown"
              /\ i \in Indexes(unmatched_out)
        /\ UnknownRows # {} =>
              \E f \in DOMAIN summary : summary[f] = Cardinality(UnknownRows)

\* C10 as amended: a record whose identity is in neither stream ends
\* unknown, in the unmatched output, and is counted in the one 'failed'
\* counter of the summary together with the records that were only
\* rejected.
C10_UnknownCountedAsFailed ==
    Done =>
        /\ \A i \in UnknownRows :
              /\ df[i].LIFTOVER_STATUS = "unknown"
              /\ i \in Indexes(unmatched_out)
              /\ ~df[i].lifted_mask
        /\ summary.failed = Cardinality(UnknownRows) + Cardinality(RejectedOnlyRows)

\* C10 witness: a finished run with a row in neither stream and a row
\* that was only rejected, both counted as failed.
C10_Witness ==
    /\ Done
    /\ UnknownRows # {}
    /\ RejectedOnlyRows # {}
    /\ summary.failed = 2

-----------------------------------------------------------------------------
(* Failures of the external tools *)

\* The number of times a run has started bcftools +liftover.
EngineCalls(p) == Cardinality({i \in DOMAIN p.calls : p.calls[i] = "+liftover"})

NormFailed == proc.norm_rc = "failed"

-----------------------------------------------------------------------------
(* The output files *)

\* C13: a run that fails leaves no output file of its own at a final path,
\* wherever it fails (the write and the rename of the unmatched output
\* included): when a run has ended, the primary and the unmatched output
\* of that run are both in place or neither is.
C13_OutputsAllOrNothing ==
    /\ pc = "failed" =>
          /\ outputs.output # "complete"
          /\ outputs.unmatched # "complete"
    /\ pc \in {"done", "failed"} =>
          (outputs.output = "complete" <=> outputs.unmatched = "complete")

\* C14: a final path only ever holds a completely written file.  Each
\* output is written to its .tmp path and renamed after the write has
\* returned: whatever statement raises, only a .tmp path holds a partly
\* written file, and a .tmp path that was renamed is gone.
C14_FinalPathsNeverPartial ==
    /\ outputs.output # "partial"
    /\ outputs.unmatched # "partial"
    /\ outputs.output = "complete" => outputs.output_tmp = "absent"
    /\ outputs.unmatched = "complete" => outputs.unmatched_tmp = "absent"

\* C14 witness: the write of the primary output has failed part way in a
\* run that found the output of an earlier run; the partial file is at the
\* .tmp path and the earlier output is still in place.
C14_Witness ==
    /\ pc = "failed"
    /\ outputs.output_tmp = "partial"
    /\ outputs.output = "old"

-----------------------------------------------------------------------------
(* The schema of the input *)

\* C15: a run whose input lacks a required column starts no external
\* process at all, whether it converts the input or finds input.vcf.gz in
\* the temporary directory and skips the conversion.
C15_SchemaErrorBeforeEngine ==
    missing_cols => proc.calls = << >>

-----------------------------------------------------------------------------
(* The records sumstats_to_vcf emits *)

\* The rank of a chromosome name: 1..22 by number, X 23, Y 24, MT and M
\* 25, with or without the chr prefix; 0 for any other name.
ChrRank(name) ==
    IF \E i \in 1..22 : name \in {ToString(i), "chr" \o ToString(i)}
    THEN CHOOSE i \in 1..22 : name \in {ToString(i), "chr" \o ToString(i)}
    ELSE IF name \in {"X", "chrX"} THEN 23
    ELSE IF name \in {"Y", "chrY"} THEN 24
    ELSE IF name \in {"MT", "chrMT", "M", "chrM"} THEN 25
    ELSE 0

\* C16: the records sumstats_to_vcf emits are sorted.  Of two consecutive
\* records the later has the higher chromosome rank, or the same rank and
\* a position that is not lower; every emitted record has a rank.
C16_EmittedSorted ==
    pc = "encoded" =>
        /\ \A i \in DOMAIN input_vcf : ChrRank(input_vcf[i].chrom) \in 1..25
        /\ \A i \in 1..(Len(input_vcf) - 1) :
              LET a == input_vcf[i]
                  b == input_vcf[i + 1]
              IN  \/ ChrRank(a.chrom) < ChrRank(b.chrom)
                  \/ /\ ChrRank(a.chrom) = ChrRank(b.chrom)
                     /\ a.pos <= b.pos

\* C16 witness: two rows were emitted in the other order than the table
\* has them, a prefixed chromosome 2 before chromosome MT although its
\* position is higher.
C16_Witness ==
    /\ pc = "encoded"
    /\ Len(input_vcf) = 2
    /\ input_vcf[1].src = 2
    /\ input_vcf[1].chrom = "chr2"
    /\ input_vcf[2].chrom = "chrMT"
    /\ input_vcf[1].pos > input_vcf[2].pos

\* The table rows that have a record in input.vcf.gz.
EmittedRows == {input_vcf[i].src : i \in DOMAIN input_vcf}

\* C17: sumstats_to_vcf emits a record for a row if and only if the row's
\* cleaned chromosome is one of 1..22, X, Y, MT, M (with or without the chr
\* prefix) and its position is a number; it emits one record per such row,
\* each on a recognised chromosome, and returns the number of records.
C17_EmittedIffRecognised ==
    pc = "encoded" =>
        /\ EmittedRows = {i \in DOMAIN table :
                             /\ ChrRank(CleanChr(table[i].chr)) \in 1..25
                             /\ table[i].pos # BadPos}
        /\ Len(input_vcf) = Cardinality(EmittedRows)
        /\ \A i \in DOMAIN input_vcf : ChrRank(input_vcf[i].chrom) \in 1..25
        /\ proc.returned = Len(input_vcf)

\* C17 witness: of two rows the one on an unrecognised chromosome was
\* dropped and the one whose chromosome cell reads 10.0 was emitted on
\* chromosome 10; the count returned is 1.
C17_Witness ==
    /\ pc = "encoded"
    /\ Len(table) = 2
    /\ table[1].chr = "Un" /\ table[1].pos # BadPos
    /\ table[2].chr = "10.0"
    /\ EmittedRows = {2}
    /\ input_vcf[1].chrom = "10"
    /\ proc.returned = 1

-----------------------------------------------------------------------------
(* The three flags *)

\* The success stream with the FLIP field of record k set the other way
\* and nothing else changed.
FlipToggled(s, k) ==
    [s EXCEPT ![k].flip = IF @ = "1" THEN "." ELSE "1"]

\* C18: the strand-flip flag takes no part in the flip decision.  Take the
\* success stream of a finished run and set the FLIP field of any one
\* record the other way: every dict entry keeps its effect_flipped value
\* and every other field but flip, and every output row keeps its alleles,
\* statistics, coordinates, status and other flags; the rows differ in
\* STRAND_FLIP only, and do so exactly when they matched that record.
C18_StrandFlipIsProvenance ==
    Done =>
        \A k \in DOMAIN success :
            LET other == LiftedVariants(FlipToggled(success, k))
                lastk == \A j \in DOMAIN success :
                            success[j].id = success[k].id => j <= k
            IN  /\ DOMAIN other = DOMAIN lifted_info
                /\ \A id \in DOMAIN other :
                      /\ other[id].effect_flipped = lifted_info[id].effect_flipped
                      /\ [other[id] EXCEPT !.flip = lifted_info[id].flip] = lifted_info[id]
                /\ \A i \in DOMAIN table :
                      LET a == df[i]
                          b == UpdatedRow(table[i], i, other, rejected_ids, args)
                      IN  /\ [b EXCEPT !.STRAND_FLIP = a.STRAND_FLIP] = a
                          /\ (b.STRAND_FLIP # a.STRAND_FLIP) <=>
                                (lastk /\ a.variant_id = success[k].id)

\* C18 witness: a finished run with a lifted row whose record the engine
\* marked as strand-flipped and not swapped; its statistics are as in the
\* input.
C18_Witness ==
    /\ Done
    /\ \E i \in DOMAIN df :
          /\ df[i].LIFTOVER_STATUS = "lifted"
          /\ df[i].STRAND_FLIP
          /\ ~df[i].flip_mask
          /\ df[i].stats = table[i].stats

\* Values a flag field of the engine output may carry.
FlagSamples == {"1", "0", ".", "2", "-1"}

\* The last record of the success stream with the given ID.
LastRecord(id) ==
    success[CHOOSE k \in DOMAIN success :
                /\ success[k].id = id
                /\ \A j \in DOMAIN success : success[j].id = id => j <= k]

\* C19: PRESWAP, ALLELE_SWAP and STRAND_FLIP are booleans in every row of
\* the data frame and of both outputs.  A row whose identity is in the
\* success stream has each flag true exactly when the field of its record
\* is '1'; a row whose identity is not in the success stream has all three
\* false; and whatever the three fields of a record carry, the parsed
\* flags are true exactly for '1'.
C19_FlagsAreBooleans ==
    Done =>
        /\ \A i \in DOMAIN df :
              LET d == df[i]
              IN  /\ {d.PRESWAP, d.ALLELE_SWAP, d.STRAND_FLIP} \subseteq BOOLEAN
                  /\ IF \E k \in DOMAIN success : success[k].id = d.variant_id
                     THEN LET r == LastRecord(d.variant_id)
                          IN  /\ d.PRESWAP = (r.preswap = "1")
                              /\ d.ALLELE_SWAP = (r.swap = "1")
                              /\ d.STRAND_FLIP = (r.flip = "1")
                     ELSE ~d.PRESWAP /\ ~d.ALLELE_SWAP /\ ~d.STRAND_FLIP
        /\ \A k \in DOMAIN lifted_out :
              lifted_out[k] = chunk_clean(df[lifted_out[k].idx])
        /\ \A k \in DOMAIN unmatched_out :
              unmatched_out[k] = chunk_clean(df[unmatched_out[k].idx])
        /\ \A k \in DOMAIN success :
              \A sw \in FlagSamples, fl \in FlagSamples, pre \in FlagSamples :
                  LET e == LiftedEntry([success[k] EXCEPT
                                           !.swap = sw, !.flip = fl, !.preswap = pre])
                  IN  /\ e.swap = (sw = "1")
                      /\ e.flip = (fl = "1")
                      /\ e.preswap = (pre = "1")

\* C19 witness: a finished run with a lifted row whose record carries none
\* of the three fields (no PRESWAP annotation, no SWAP, no FLIP) and a row
\* that is not in the success stream; all flags of both rows are false.
C19_Witness ==
    /\ Done
    /\ \E i \in DOMAIN df, j \in DOMAIN df :
          /\ \E k \in DOMAIN success : success[k].id = df[i].variant_id
          /\ LastRecord(df[i].variant_id).preswap = "."
          /\ LastRecord(df[i].variant_id).swap = "."
          /\ LastRecord(df[i].variant_id).flip = "."
          /\ ~df[i].PRESWAP /\ ~df[i].ALLELE_SWAP /\ ~df[i].STRAND_FLIP
          /\ \A k \in DOMAIN success : success[k].id # df[j].variant_id
          /\ ~df[j].PRESWAP /\ ~df[j].ALLELE_SWAP /\ ~df[j].STRAND_FLIP

-----------------------------------------------------------------------------
(* The summary *)

\* C20: the summary agrees with the partition.  The 'lifted' count is the
\* number of rows in the primary output, the 'failed' count is the number
\* of rows in the unmatched output, and total = lifted + failed, whatever
\* the success and reject streams hold.
C20_SummaryAgreesWithPartition ==
    Done =>
        /\ summary.lifted = Len(lifted_out)
        /\ summary.failed = Len(unmatched_out)
        /\ summary.total = summary.lifted + summary.failed

\* C21: the 'allele swapped' counter of the summary is the number of rows
\* whose ALLELE_SWAP flag is true, and the 'strand flipped' counter is the
\* number of rows matched to a lifted record whose STRAND_FLIP flag is
\* true.
C21_CountersCountFlags ==
    Done =>
        /\ summary.allele_swapped =
              Cardinality({i \in DOMAIN df : df[i].ALLELE_SWAP})
        /\ summary.strand_flipped =
              Cardinality({i \in DOMAIN df : df[i].lifted_mask /\ df[i].STRAND_FLIP})

-----------------------------------------------------------------------------
(* The order of the steps *)

\* update_sumstats has started in this run, or something of this run is
\* at an output path or in the data frame.
Reconciling ==
    \/ "update_sumstats" \in proc.ran
    \/ df # << >>
    \/ outputs.output = "complete" \/ outputs.unmatched = "complete"
    \/ outputs.output_tmp \in {"partial", "complete"}
    \/ outputs.unmatched_tmp \in {"partial", "complete"}

\* The commands a run has started end with the two reads of
\* parse_lifted_vcf, and if the run started the engine, the engine, the
\* sort and the two indexings come right before them.
BarrierCalls(calls) ==
    LET n == Len(calls)
    IN  /\ n >= 2
        /\ SubSeq(calls, n - 1, n) = <<"query", "query">>
        /\ \A i \in DOMAIN calls :
              calls[i] = "+liftover" =>
                  /\ i = n - 5
                  /\ SubSeq(calls, i, n - 2) = <<"+liftover", "sort", "index", "index">>

\* C22: full barriers between the steps.  Whenever update_sumstats has
\* started or anything of the run is in the data frame or at an output
\* path, the engine (if this run started it) and its sort and indexing
\* have returned, parse_lifted_vcf has run and has read the whole success
\* stream and the whole reject stream, and nothing runs after
\* update_sumstats.
C22_FullBarriers ==
    Reconciling =>
        /\ pc \in {"done", "failed"}
        /\ {"parse_lifted_vcf", "update_sumstats"} \subseteq proc.ran
        /\ BarrierCalls(proc.calls)
        /\ tmpdir.present => HasLiftedVcf
        /\ lifted_info = LiftedVariants(success)
        /\ rejected_ids = reject

\* C22 witness: a run that started the engine has ended with both outputs
\* in place, the one record of its reject stream read.
C22_Witness ==
    /\ Done
    /\ EngineCalls(proc) = 1
    /\ reject # << >>
    /\ rejected_ids = reject
    /\ outputs.output = "complete"
    /\ outputs.unmatched = "complete"

-----------------------------------------------------------------------------
(* PRESWAP *)

\* C23: the PRESWAP value sumstats_to_vcf attaches to a record is 1 exactly
\* when the normalizer exchanged REF and ALT of that record, whatever the
\* two alleles of the row are; when the normalizer failed no record reads
\* as pre-swapped.
C23_PreswapIffNormSwapped ==
    pc = "encoded" =>
        \A i \in DOMAIN input_vcf :
            (FlagField(input_vcf[i].preswap) = "1") <=> input_vcf[i].nswap

-----------------------------------------------------------------------------
(* Column names that are no columns *)

\* The caller passed a name that is no column of the table.
UnknownNamePassed ==
    \E c \in Range(args.effect_cols) \cup Range(args.eaf_cols) : c \notin StatCols

\* C24: the effect and frequency column names are validated against the
\* table before any record is processed; a run that was passed a name that
\* is no column does not get past its start, so no row is written with
\* its alleles exchanged by a run that skipped a name.
C24_UnknownNameAborts ==
    UnknownNamePassed =>
        /\ pc \in {"start", "failed"}
        /\ lifted_out = << >>

-----------------------------------------------------------------------------
(* The chr prefix *)

\* C25 as stated: the prefix setting alone decides the emitted chromosome
\* name.  With add_chr_prefix every emitted name is chr followed by a bare
\* name; without it every emitted name is a bare name, whether or not the
\* cell of the table had the prefix.
C25_PrefixBySettingAlone ==
    pc = "encoded" =>
        \A i \in DOMAIN input_vcf :
            IF args.add_chr_prefix
            THEN input_vcf[i].chrom \in valid_chroms_with_chr
            ELSE input_vcf[i].chrom \in simple_chroms

\* C25 as amended: the prefix is added and never removed.  With
\* add_chr_prefix every emitted name is chr followed by a bare name (one
\* prefix, also when the cell had it already); without it the emitted name
\* is the cleaned cell of the table, with the prefix exactly when the cell
\* had it.
C25_PrefixAddedNeverRemoved ==
    pc = "encoded" =>
        \A i \in DOMAIN input_vcf :
            LET cell == CleanChr(table[input_vcf[i].src].chr)
                name == input_vcf[i].chrom
            IN  IF args.add_chr_prefix
                THEN /\ name \in valid_chroms_with_chr
                     /\ name \in {cell, "chr" \o cell}
                ELSE /\ name = cell
                     /\ name \in valid_chroms_with_chr <=> cell \in valid_chroms_with_chr

\* C25 witness: without add_chr_prefix a row whose cell reads chr2 was
\* emitted on chr2 next to a row emitted on 2.
C25_Witness ==
    /\ pc = "encoded"
    /\ ~args.add_chr_prefix
    /\ Len(input_vcf) = 2
    /\ input_vcf[1].chrom = "2"
    /\ input_vcf[2].chrom = "chr2"
    /\ table[input_vcf[2].src].chr = "chr2"

-----------------------------------------------------------------------------
(* Resuming in a temporary directory *)

C27_IntermediatesOfOwnInput ==
    (pc \in {"encoded", "lifted", "parsed", "done"} /\ ~missing_cols) =>
        LET own == EncodedRecords(table, args)
        IN  /\ {<<r.id, r.pos>> : r \in Range(input_vcf)} =
                  {<<r.id, r.pos>> : r \in Range(own)}
            /\ pc # "encoded" =>
                  \E e \in EngineOutputs(input_vcf) :
                      success = e.success /\ reject = e.reject
            /\ pc \in {"parsed", "done"} => lifted_info = LiftedVariants(success)

-----------------------------------------------------------------------------
(* The temporary directory *)

\* C28: the life of the temporary directory.  While a run is under way
\* the directory exists.  When main() ends, by returning or by an
\* exception of any step, a directory it made itself is removed with its
\* files unless --keep-temp is given; a directory given with --temp-dir
\* exists afterwards, and its files are as the last step left them: a step
\* that ends the run leaves alone the files of the steps before it.
C28_TempDirLifecycle ==
    [][/\ pc' \notin {"done", "failed"} => tmpdir'.present
       /\ (pc \notin {"done", "failed"} /\ pc' \in {"done", "failed"}) =>
             /\ tmpdir.present
             /\ IF args.temp_dir \/ args.keep_temp
                THEN /\ tmpdir'.present
                     /\ pc \in {"lifted", "parsed"} => tmpdir' = tmpdir
                     /\ pc = "encoded" =>
                           /\ tmpdir'.input_vcf = tmpdir.input_vcf
                           /\ tmpdir'.input_tbi = tmpdir.input_tbi
                ELSE tmpdir' = RemovedDir]_vars

\* C28 witness: a run in a directory it made itself has ended with an
\* exception of run_liftover, after input.vcf.gz had been written and
\* indexed, and the directory is gone.
C28_Witness ==
    /\ pc = "failed"
    /\ ~args.temp_dir /\ ~args.keep_temp
    /\ "run_liftover" \in proc.ran
    /\ proc.error = "CalledProcessError"
    /\ tmpdir = RemovedDir

-----------------------------------------------------------------------------
(* The rows of the unmatched output *)

\* C29: every row of the unmatched output carries the chromosome, the
\* position, the alleles and the effect and frequency values of its input
\* row unchanged, the rows the encoder dropped for a position that is no
\* number included.
C29_UnmatchedRowsUnchanged ==
    Done =>
        \A k \in DOMAIN unmatched_out :
            LET r == unmatched_out[k]
                row == table[r.idx]
            IN  /\ r.chr = row.chr
                /\ r.pos = row.pos
                /\ r.ea = row.ea
                /\ r.ref = row.ref
                /\ r.stats = row.stats

-----------------------------------------------------------------------------
(* The coding of a phenotype column *)

\* The observed values of a column are all of PLINK's 1, 2 and -9.
PlinkCoded(col) == unique_vals(col) \subseteq {1, 2, -9}

\* The observed values of a column are of 0 and 1, and there is one.
BinaryCoded(col) == unique_vals(col) \subseteq {0, 1} /\ unique_vals(col) # {}

\* C30: a phenotype column is recoded 0 -> 1, 1 -> 2, missing -> -9 only
\* when it is 0/1 coded; a column that is already in PLINK 1/2/-9 coding
\* keeps every non-missing value and has its missing cells set to -9,
\* whatever values are present, a column whose only observed value is 1
\* included.
C30_PlinkCodingKept ==
    pc = "exported" =>
        /\ Len(d_set) = Len(pheno)
        /\ PlinkCoded(pheno) =>
              \A i \in DOMAIN pheno : d_set[i] = FillMissing(pheno[i])
        /\ (\E i \in DOMAIN pheno : pheno[i] # NaN /\ d_set[i] # pheno[i]) =>
              /\ BinaryCoded(pheno)
              /\ \A i \in DOMAIN pheno : d_set[i] = MapBinary(pheno[i])

====
